---- MODULE Spec2Model ----
(***************************************************************************)
(* A model of vite-plugin-shadcn-registry: the classifier                  *)
(* (getShadcnItemMeta, getRegistryItemName), the import-graph walk         *)
(* (getHoistedImportedIds), the closure builder                            *)
(* (createShadcnItemDependencies), the registry store (RegistryImpl) and   *)
(* the buildEnd pass that ties them together.                              *)
(*                                                                         *)
(* A module identity is the string the bundler assigns, for instance       *)
(* "/proj/src/components/card/index.ts", "clsx" or                         *)
(* "\\0virtual:shadcn-registry".  The NUL character that starts a virtual   *)
(* module's identity is written as the two characters \\0.                  *)
(***************************************************************************)
EXTENDS Naturals, Sequences, FiniteSets, TLC

(***************************************************************************)
(* Bounds of the model.                                                    *)
(***************************************************************************)
\* directory levels below a semantic root in the classifier's inputs
MaxSubDirs == 2

\* import edges of a module graph handed to the walk on its own
MaxWalkEdges == 4

\* import edges among the records handed to the closure builder on its own
MaxClosureEdges == 3

\* addItem calls on a registry on its own
MaxAddItems == 3

\* import edges of the module graph of a build with its bundle
MaxBuildEdges == 4

\* builds the host runs on one plugin instance and one module graph
MaxBuilds == 2

\* import edges of the module graph of a whole pass
MaxPassEdges == 4

VARIABLES
  resolvedId,      \* Classifier: the argument of the last getShadcnItemMeta call
  shadcnItemMeta,  \* Classifier: what that call returned
  importedIds,     \* host: id -> the ids it imports statically, in order
  dynamicallyImportedIds,  \* host: id -> the ids it imports dynamically
  moduleInfoIds,   \* host: the ids getModuleInfo has a ModuleInfo for
  unresolvedIds,   \* host: the ids this.resolve returns null for
  pc,              \* where the running operation stands
  hoistedImportedIds,  \* walk: the Set of ids found, in insertion order
  moduleIdsToProcess,  \* walk: the frontier
  moduleInfoFetches,   \* walk: id -> how often getModuleInfo(id) was fetched
  shadcnItems,     \* buildEnd: the Map id -> ShadcnItem, as its entries in order
  closureId,       \* closure: the id createShadcnItemDependencies was called with
  items,           \* closure: the keys of the frontier Map, in order
  itemIndex,       \* closure: the position in items the for loop has reached
  nextItems,       \* closure: the keys of the next frontier Map
  dependencies,    \* closure: the Set of external dependencies
  registryDependencies,  \* closure: the Set of catalog cross-references
  files,           \* closure: the Map id -> RegistryItemFile, as its entries
  entryIndex,      \* buildEnd: the entry of shadcnItems its second loop is at
  itemsMap,        \* RegistryImpl: the Map name -> RegistryItem, as its entries
  addedItems,      \* RegistryImpl: the arguments of the addItem calls so far
  returned,        \* RegistryImpl: the last getItem call and what it returned
  emitted,         \* generateBundle: the files emitted by its last call, in order
  run,             \* host: the number of the build the plugin instance is in
  firstEmitted     \* host: the files the first build emitted

clsVars == <<resolvedId, shadcnItemMeta>>

hostVars == <<importedIds, dynamicallyImportedIds, moduleInfoIds, unresolvedIds>>

walkVars == <<hoistedImportedIds, moduleIdsToProcess, moduleInfoFetches>>

closureVars ==
  <<closureId, items, itemIndex, nextItems, dependencies, registryDependencies,
    files>>

registryVars == <<itemsMap, addedItems, returned>>

passVars == <<shadcnItems, entryIndex>>

bundleVars == <<emitted, run, firstEmitted>>

vars == <<clsVars, hostVars, pc, walkVars, closureVars, registryVars, passVars,
          bundleVars>>

----------------------------------------------------------------------------
(***************************************************************************)
(* Characters and strings.                                                 *)
(***************************************************************************)
LowerSeq ==
  <<"a","b","c","d","e","f","g","h","i","j","k","l","m",
    "n","o","p","q","r","s","t","u","v","w","x","y","z">>

UpperSeq ==
  <<"A","B","C","D","E","F","G","H","I","J","K","L","M",
    "N","O","P","Q","R","S","T","U","V","W","X","Y","Z">>

DigitSeq == <<"0","1","2","3","4","5","6","7","8","9">>

Range(s) == { s[i] : i \in DOMAIN s }

\* the i-th character of the string s
At(s, i) == SubSeq(s, i, i)

IsLower(c) == c \in Range(LowerSeq)

IsUpper(c) == c \in Range(UpperSeq)

IsDigit(c) == c \in Range(DigitSeq)

IsAlnum(c) == IsLower(c) \/ IsUpper(c) \/ IsDigit(c)

LowerChar(c) ==
  IF IsUpper(c) THEN LowerSeq[CHOOSE i \in DOMAIN UpperSeq : UpperSeq[i] = c]
  ELSE c

RECURSIVE toLowerCase(_)
toLowerCase(s) ==
  IF s = "" THEN "" ELSE LowerChar(Head(s)) \o toLowerCase(Tail(s))

\* String.prototype.endsWith, startsWith, includes, indexOf (0 when absent)
endsWith(s, suffix) ==
  /\ Len(s) >= Len(suffix)
  /\ SubSeq(s, Len(s) - Len(suffix) + 1, Len(s)) = suffix

startsWith(s, prefix) ==
  /\ Len(s) >= Len(prefix)
  /\ SubSeq(s, 1, Len(prefix)) = prefix

OccursAt(s, part, i) ==
  /\ i + Len(part) - 1 <= Len(s)
  /\ SubSeq(s, i, i + Len(part) - 1) = part

includes(s, part) == \E i \in 1..Len(s) : OccursAt(s, part, i)

indexOf(s, part) ==
  IF includes(s, part)
  THEN CHOOSE i \in 1..Len(s) :
         OccursAt(s, part, i) /\ \A j \in 1..(i - 1) : ~OccursAt(s, part, j)
  ELSE 0

lastIndexOf(s, part) ==
  IF includes(s, part)
  THEN CHOOSE i \in 1..Len(s) :
         OccursAt(s, part, i) /\ \A j \in (i + 1)..Len(s) : ~OccursAt(s, part, j)
  ELSE 0

\* String.prototype.replace(part, ""): the first occurrence only
replaceFirst(s, part) ==
  LET i == indexOf(s, part)
  IN  IF i = 0 THEN s
      ELSE SubSeq(s, 1, i - 1) \o SubSeq(s, i + Len(part), Len(s))

\* the strings of the sequence ss joined by sep
RECURSIVE Join(_, _)
Join(ss, sep) ==
  IF ss = <<>> THEN ""
  ELSE IF Len(ss) = 1 THEN ss[1]
  ELSE ss[1] \o sep \o Join(Tail(ss), sep)

\* the parts of s between the occurrences of the character sep
RECURSIVE SplitFrom(_, _, _, _)
SplitFrom(s, sep, i, cur) ==
  IF i > Len(s) THEN <<cur>>
  ELSE IF At(s, i) = sep THEN <<cur>> \o SplitFrom(s, sep, i + 1, "")
  ELSE SplitFrom(s, sep, i + 1, cur \o At(s, i))

Split(s, sep) == SplitFrom(s, sep, 1, "")

SelectNonEmpty(ss) == SelectSeq(ss, LAMBDA x : x # "")

(***************************************************************************)
(* kebabCase of change-case: a word boundary is put between a lower-case   *)
(* letter or digit and an upper-case letter, and between an upper-case     *)
(* letter and an upper-case letter that a lower-case letter follows; every *)
(* run of other characters separates words; the words are lower-cased and  *)
(* joined by "-".                                                          *)
(***************************************************************************)
BoundaryAfter(s, i) ==
  /\ i < Len(s)
  /\ \/ (IsLower(At(s, i)) \/ IsDigit(At(s, i))) /\ IsUpper(At(s, i + 1))
     \/ /\ IsUpper(At(s, i)) /\ IsUpper(At(s, i + 1))
        /\ i + 2 <= Len(s) /\ IsLower(At(s, i + 2))

\* the words of s from position i on; cur is the word being read
RECURSIVE SplitWords(_, _, _)
SplitWords(s, i, cur) ==
  IF i > Len(s) THEN (IF cur = "" THEN <<>> ELSE <<cur>>)
  ELSE IF ~IsAlnum(At(s, i))
    THEN (IF cur = "" THEN <<>> ELSE <<cur>>) \o SplitWords(s, i + 1, "")
  ELSE IF BoundaryAfter(s, i)
    THEN <<cur \o At(s, i)>> \o SplitWords(s, i + 1, "")
  ELSE SplitWords(s, i + 1, cur \o At(s, i))

kebabCase(s) ==
  LET words == SplitWords(s, 1, "")
  IN  Join([k \in DOMAIN words |-> toLowerCase(words[k])], "-")

(***************************************************************************)
(* node:path (posix) and node:url, as far as the plugin uses them.  A path *)
(* is handled as its sequence of non-empty segments.                       *)
(***************************************************************************)
Segments(path) == SelectNonEmpty(Split(path, "/"))

joinPath(a, b) ==
  (IF startsWith(a, "/") THEN "/" ELSE "") \o Join(Segments(a) \o Segments(b), "/")

AbsPath(segs) == "/" \o Join(segs, "/")

RECURSIVE CommonPrefixLen(_, _)
CommonPrefixLen(a, b) ==
  IF a = <<>> \/ b = <<>> \/ Head(a) # Head(b) THEN 0
  ELSE 1 + CommonPrefixLen(Tail(a), Tail(b))

\* path.relative(from, to) for two absolute paths
relativePath(from, to) ==
  LET f == Segments(from)
      t == Segments(to)
      k == CommonPrefixLen(f, t)
  IN  Join([i \in 1..(Len(f) - k) |-> ".."] \o SubSeq(t, k + 1, Len(t)), "/")

\* path.parse(p): dir is what precedes the last "/", name is the base
\* without its extension (what follows the last "." that is not its first
\* character)
parsePath(p) ==
  LET slash == lastIndexOf(p, "/")
      base  == SubSeq(p, slash + 1, Len(p))
      dot   == lastIndexOf(base, ".")
  IN  [ dir  |-> IF slash = 0 THEN "" ELSE SubSeq(p, 1, slash - 1),
        base |-> base,
        name |-> IF dot > 1 THEN SubSeq(base, 1, dot - 1) ELSE base,
        ext  |-> IF dot > 1 THEN SubSeq(base, dot, Len(base)) ELSE "" ]

\* the part of s before the first occurrence of the character c
Before(s, c) ==
  IF includes(s, c) THEN SubSeq(s, 1, indexOf(s, c) - 1) ELSE s

\* fileURLToPath(new URL(id, "file://")): the URL keeps the path of id, not
\* its "?query" nor its "#fragment"; an id that is no absolute path is
\* resolved against the root "/"
getRegistryItemPath(id) ==
  AbsPath(Segments(Before(Before(id, "?"), "#")))

----------------------------------------------------------------------------
(***************************************************************************)
(* createFilter (vite, @rollup/pluginutils): an id that holds a NUL        *)
(* character matches nothing; a relative pattern is resolved against the   *)
(* working directory, taken to be the project root; the id is matched as   *)
(* it stands, with its query.  Of picomatch: "*" within a segment, a       *)
(* trailing "**", and one {a,b} alternation.                               *)
(***************************************************************************)
NUL == "\\0"

VIRTUAL_MODULE_ID == NUL \o "virtual:shadcn-registry"

configRootDir == "/proj"

\* the alternatives of a pattern segment with one {a,b,...} group
BraceExpand(pat) ==
  IF ~includes(pat, "{") THEN {pat}
  ELSE LET open  == indexOf(pat, "{")
           close == indexOf(pat, "}")
           alts  == Split(SubSeq(pat, open + 1, close - 1), ",")
       IN  { SubSeq(pat, 1, open - 1) \o alts[i] \o SubSeq(pat, close + 1, Len(pat))
               : i \in DOMAIN alts }

MatchSegment(pat, seg) ==
  \E alt \in BraceExpand(pat) :
    IF startsWith(alt, "*")
    THEN seg # "" /\ endsWith(seg, Tail(alt))
    ELSE seg = alt

RECURSIVE GlobMatch(_, _)
GlobMatch(pats, segs) ==
  IF pats = <<>> THEN segs = <<>>
  ELSE IF Head(pats) = "**" THEN Tail(pats) = <<>>
  ELSE /\ segs # <<>>
       /\ MatchSegment(Head(pats), Head(segs))
       /\ GlobMatch(Tail(pats), Tail(segs))

createFilter(patterns, id) ==
  /\ ~includes(id, NUL)
  /\ startsWith(id, "/")
  /\ \E pat \in patterns :
       GlobMatch(Segments(joinPath(configRootDir, pat)), Segments(id))

(***************************************************************************)
(* The plugin's directories and matchers.                                  *)
(***************************************************************************)
srcDir == "src"

uiComponentsDir == joinPath(srcDir, "components/ui")

componentsDir == joinPath(srcDir, "components")

composablesDir == joinPath(srcDir, "composables")

isSourceFile(id) == createFilter({joinPath(srcDir, "**")}, id)

isShadcnComponent(id) == createFilter({joinPath(uiComponentsDir, "**")}, id)

isComponent(id) ==
  createFilter({ joinPath(componentsDir, "*/index.{js,ts}"),
                 joinPath(componentsDir, "*.{vue,jsx,tsx}") }, id)

isUtil(id) == createFilter({joinPath(joinPath(srcDir, "utils"), "*")}, id)

isComposable(id) ==
  createFilter({"src/composables/*.{js,ts}", "src/composables/*/index.{js,ts}"}, id)

(***************************************************************************)
(* getRegistryItemName: the catalog name of a module under a semantic root *)
(***************************************************************************)
getRegistryItemName(id, rootDirOfConfig, registryItemType) ==
  LET itemPath == getRegistryItemPath(id)
      rootDir  == joinPath(rootDirOfConfig, registryItemType)
      parsed   == parsePath(relativePath(rootDir, itemPath))
      dir      == replaceFirst(parsed.dir, "/")
  IN  kebabCase(IF dir # "" THEN dir ELSE parsed.name)

getLocalFilePath(id, rootDirOfConfig) ==
  relativePath(rootDirOfConfig, getRegistryItemPath(id))

\* a plausible slip: the externality test made before the semantic roots
getShadcnItemMeta_ExternalFirst(resolved) ==
  LET moduleId == resolved.id
  IN  IF resolved.external = "true"
        THEN [ type |-> "external", name |-> moduleId ]
      ELSE IF isShadcnComponent(moduleId)
        THEN [ type |-> "registry:shadcn",
               name |-> getRegistryItemName(moduleId, configRootDir, uiComponentsDir) ]
      ELSE IF isComponent(moduleId)
        THEN [ type |-> "registry:component",
               name |-> getRegistryItemName(moduleId, configRootDir, componentsDir) ]
      ELSE IF isComposable(moduleId)
        THEN [ type |-> "registry:hook",
               name |-> getRegistryItemName(moduleId, configRootDir, composablesDir) ]
      ELSE IF isUtil(moduleId)
        THEN [ type |-> "registry:lib",
               name |-> getRegistryItemName(moduleId, configRootDir, srcDir) ]
      ELSE [ type |-> "registry:internal", name |-> moduleId ]

(***************************************************************************)
(* getShadcnItemMeta: the category and catalog name of a resolved module.  *)
(* resolved.external is rollup's ResolvedId.external: TRUE, FALSE or       *)
(* "absolute", written here "true", "false", "absolute".                   *)
(***************************************************************************)
getShadcnItemMeta(resolved) ==
  LET moduleId == resolved.id
      external == resolved.external
  IN  IF isShadcnComponent(moduleId)
        THEN [ type |-> "registry:shadcn",
               name |-> getRegistryItemName(moduleId, configRootDir, uiComponentsDir) ]
      ELSE IF isComponent(moduleId)
        THEN [ type |-> "registry:component",
               name |-> getRegistryItemName(moduleId, configRootDir, componentsDir) ]
      ELSE IF isComposable(moduleId)
        THEN [ type |-> "registry:hook",
               name |-> getRegistryItemName(moduleId, configRootDir, composablesDir) ]
      ELSE IF isUtil(moduleId)
        THEN [ type |-> "registry:lib",
               name |-> getRegistryItemName(moduleId, configRootDir, srcDir) ]
      ELSE IF external = "true"
        THEN [ type |-> "external", name |-> moduleId ]
      ELSE [ type |-> "registry:internal", name |-> moduleId ]

\* no getShadcnItemMeta call has returned
NoMeta == [type |-> "none", name |-> ""]

ClsIdle ==
  /\ resolvedId = [id |-> "", external |-> "false"]
  /\ shadcnItemMeta = NoMeta

----------------------------------------------------------------------------
(***************************************************************************)
(* Sets and insertion-ordered collections.  A JavaScript Set or Map keeps  *)
(* its keys in insertion order and ignores a key it already holds: it is   *)
(* modelled as a sequence without repetitions.                             *)
(***************************************************************************)
SetAdd(seq, x) == IF x \in Range(seq) THEN seq ELSE Append(seq, x)

RECURSIVE SetAddAll(_, _)
SetAddAll(seq, xs) ==
  IF xs = <<>> THEN seq ELSE SetAddAll(SetAdd(seq, Head(xs)), Tail(xs))

\* the sets of at most k of the numbers 1..n
RECURSIVE NumbersUpTo(_, _)
NumbersUpTo(n, k) ==
  IF n = 0 \/ k = 0 THEN {{}}
  ELSE NumbersUpTo(n - 1, k) \cup { e \cup {n} : e \in NumbersUpTo(n - 1, k - 1) }

\* the elements of the set S, in some order
RECURSIVE Enumerate(_)
Enumerate(S) ==
  IF S = {} THEN <<>>
  ELSE LET x == CHOOSE y \in S : TRUE IN <<x>> \o Enumerate(S \ {x})

\* the sets of at most k elements of the set S
SubsetsUpTo(S, k) ==
  LET nth == Enumerate(S)
  IN  { { nth[i] : i \in e } : e \in NumbersUpTo(Len(nth), k) }

(***************************************************************************)
(* The host's module graph.  A graph is drawn as a set of import edges; a  *)
(* module's import lists present its imports in the order of ids, and the  *)
(* edges into a module of lazy are dynamic imports.                        *)
(***************************************************************************)
\* an edge <<i, j>>: the module ids[i] imports the module ids[j]
Edges(ids) == { e \in (DOMAIN ids) \X (DOMAIN ids) : e[1] # e[2] }

StaticImports(ids, edges, lazy, i) ==
  SelectSeq(ids, LAMBDA t : /\ t \notin lazy
                            /\ \E j \in DOMAIN ids : ids[j] = t /\ <<i, j>> \in edges)

DynamicImports(ids, edges, lazy, i) ==
  SelectSeq(ids, LAMBDA t : /\ t \in lazy
                            /\ \E j \in DOMAIN ids : ids[j] = t /\ <<i, j>> \in edges)

IndexIn(ids, id) == CHOOSE i \in DOMAIN ids : ids[i] = id

HostGraph(ids, edges, lazy) ==
  /\ importedIds =
       [id \in Range(ids) |-> StaticImports(ids, edges, lazy, IndexIn(ids, id))]
  /\ dynamicallyImportedIds =
       [id \in Range(ids) |-> DynamicImports(ids, edges, lazy, IndexIn(ids, id))]

HostIdle ==
  /\ importedIds = <<>>
  /\ dynamicallyImportedIds = <<>>
  /\ moduleInfoIds = {}
  /\ unresolvedIds = {}

\* this.getModuleInfo(id) # null
hasModuleInfo(id) == id \in moduleInfoIds

(***************************************************************************)
(* getHoistedImportedIds: one step is one turn of its while loop.          *)
(***************************************************************************)
\* a plausible slip: the dynamic imports are not followed
ModuleImports_StaticOnly(id) == importedIds[id]

\* [...moduleInfo.importedIds, ...moduleInfo.dynamicallyImportedIds]
ModuleImports(id) == importedIds[id] \o dynamicallyImportedIds[id]

\* moduleIdsToProcess.map(...).flatMap(...): the import lists of a frontier,
\* one after the other
RECURSIVE FlatMapImports(_)
FlatMapImports(ids) ==
  IF ids = <<>> THEN <<>>
  ELSE ModuleImports(Head(ids)) \o FlatMapImports(Tail(ids))

\* the frontier up to and with its first id that has no ModuleInfo (the map
\* callback throws there), the whole frontier when there is none
FetchedBeforeThrow(frontier) ==
  IF \E i \in DOMAIN frontier : ~hasModuleInfo(frontier[i])
  THEN SubSeq(frontier, 1,
         CHOOSE i \in DOMAIN frontier :
           /\ ~hasModuleInfo(frontier[i])
           /\ \A j \in 1..(i - 1) : hasModuleInfo(frontier[j]))
  ELSE frontier

CountIn(seq, x) == Cardinality({ i \in DOMAIN seq : seq[i] = x })

\* a plausible slip: the frontier is not filtered by the visited set
NextModuleIdsToProcess_Unfiltered(imports, hoisted) == imports

\* moduleIdsToProcess.filter(id => false == hoistedImportedIds.has(id))
NextModuleIdsToProcess(imports, hoisted) ==
  SelectSeq(imports, LAMBDA id : id \notin Range(hoisted))

WalkIdle ==
  /\ hoistedImportedIds = <<>>
  /\ moduleIdsToProcess = <<>>
  /\ moduleInfoFetches = <<>>

\* the call getHoistedImportedIds(moduleId), up to the loop
WalkStart(moduleId, ids) ==
  /\ hoistedImportedIds = <<>>
  /\ moduleIdsToProcess = <<moduleId>>
  /\ moduleInfoFetches = [id \in ids |-> 0]

WalkTurn ==
  /\ pc = "walk"
  /\ LET fetched == FetchedBeforeThrow(moduleIdsToProcess)
         imports == FlatMapImports(moduleIdsToProcess)
         next    == NextModuleIdsToProcess(imports, hoistedImportedIds)
     IN  /\ moduleInfoFetches' =
              [id \in DOMAIN moduleInfoFetches |->
                 moduleInfoFetches[id] + CountIn(fetched, id)]
         /\ IF \E i \in DOMAIN moduleIdsToProcess :
                   ~hasModuleInfo(moduleIdsToProcess[i])
            THEN \* throw new Error(`Unable to find info for module ...`)
                 /\ pc' = "failed"
                 /\ UNCHANGED <<hoistedImportedIds, moduleIdsToProcess>>
            ELSE /\ hoistedImportedIds' = SetAddAll(hoistedImportedIds, imports)
                 /\ moduleIdsToProcess' = next
                 /\ pc' = IF next = <<>> THEN "walked" ELSE "walk"
  /\ UNCHANGED <<clsVars, hostVars, closureVars, registryVars, passVars, bundleVars>>

(***************************************************************************)
(* The record map of buildEnd.  A Map is the sequence of its entries, each *)
(* with its key in the field id.                                           *)
(***************************************************************************)
MapKeys(map) == [i \in DOMAIN map |-> map[i].id]

MapHas(map, key) == \E i \in DOMAIN map : map[i].id = key

MapGet(map, key) == map[CHOOSE i \in DOMAIN map : map[i].id = key]

\* Map.prototype.set: a key the map holds keeps its place
MapSet(map, entry) ==
  IF MapHas(map, entry.id)
  THEN [i \in DOMAIN map |-> IF map[i].id = entry.id THEN entry ELSE map[i]]
  ELSE Append(map, entry)

CARD_ID == "/proj/src/components/card/index.ts"

FORMAT_ID == "/proj/src/components/card/format.ts"

SCRIPT_BLOCK_ID == "/proj/src/components/card/Card.vue?vue&type=script&lang.ts"

BUTTON_ID == "/proj/src/components/ui/button/index.ts"

HOOK_ID == "/proj/src/composables/useMouse.ts"

EXPORT_HELPER_ID == NUL \o "plugin-vue:export-helper"

MISSING_ID == "/proj/src/missing.ts"

CARD_HOOK_ID == "/proj/src/composables/card.ts"

INDEX_HOOK_ID == "/proj/src/composables/index.ts"

\* the module identities of the graphs below
KnownIds ==
  { VIRTUAL_MODULE_ID, CARD_ID, FORMAT_ID, SCRIPT_BLOCK_ID, "clsx", BUTTON_ID,
    HOOK_ID, EXPORT_HELPER_ID, MISSING_ID, CARD_HOOK_ID, INDEX_HOOK_ID }

\* what the transform hook stored for a source file, undefined otherwise
SourceCode(id) ==
  IF isSourceFile(id) THEN "<source of " \o id \o ">" ELSE "undefined"

\* this.resolve(moduleId).external: a bare specifier is an external package
ResolvedExternal(id) ==
  IF startsWith(id, "/") \/ startsWith(id, NUL) THEN "false" ELSE "true"

\* this.resolve(moduleId) of a module that resolves
Resolved(id) == [id |-> id, external |-> ResolvedExternal(id)]

\* the values of getShadcnItemMeta, SourceCode and getLocalFilePath for the
\* known identities, computed once
MetaOfKnown == [id \in KnownIds |-> getShadcnItemMeta(Resolved(id))]

SourceCodeOfKnown == [id \in KnownIds |-> SourceCode(id)]

LocalFilePathOfKnown == [id \in KnownIds |-> getLocalFilePath(id, configRootDir)]

\* the entry buildEnd sets for a module
ShadcnItem(id) ==
  [ id   |-> id,
    meta |-> MetaOfKnown[id],
    modules |-> dynamicallyImportedIds[id] \o importedIds[id],
    code |-> SourceCodeOfKnown[id] ]

PublishableTypes == {"registry:component", "registry:hook", "registry:lib"}

\* the Map buildEnd fills from the ids of a Set: no key is set twice
ShadcnItemsOf(ids) == [i \in DOMAIN ids |-> ShadcnItem(ids[i])]

(***************************************************************************)
(* createShadcnItemDependencies: one step is one turn of the for loop over *)
(* the frontier; the turn that ends a frontier also makes the next         *)
(* frontier the current one, and returns when that is empty.               *)
(***************************************************************************)
ClosureIdle ==
  /\ closureId = ""
  /\ items = <<>>
  /\ itemIndex = 0
  /\ nextItems = <<>>
  /\ dependencies = <<>>
  /\ registryDependencies = <<>>
  /\ files = <<>>

\* the keys of the first frontier: those entries of originalItems whose key
\* is id or one of the modules of id, in the order of originalItems
SeedKeys(id, originalItems) ==
  LET keys == <<id>> \o (IF MapHas(originalItems, id)
                         THEN MapGet(originalItems, id).modules ELSE <<>>)
  IN  SelectSeq(MapKeys(originalItems), LAMBDA k : k \in Range(keys))

\* a plausible slip: files is kept outside the function and never cleared
ClosureCalled_KeepsFiles(id, originalItems) ==
  [ closureId |-> id,
    items     |-> SeedKeys(id, originalItems),
    itemIndex |-> 1,
    nextItems |-> <<>>,
    dependencies |-> <<>>,
    registryDependencies |-> <<>>,
    files     |-> files ]

\* the state of createShadcnItemDependencies(id, originalItems, configRootDir)
\* when it reaches its loop
ClosureCalled(id, originalItems) ==
  [ closureId |-> id,
    items     |-> SeedKeys(id, originalItems),
    itemIndex |-> 1,
    nextItems |-> <<>>,
    dependencies |-> <<>>,
    registryDependencies |-> <<>>,
    files     |-> <<>> ]

\* where the call stands then: an empty first frontier ends the loop at once
ClosurePc(id, originalItems) ==
  IF SeedKeys(id, originalItems) = <<>> THEN "closed" ELSE "closure"

RegistryItemFile(id) ==
  [ id      |-> id,
    type    |-> "registry:file",
    path    |-> LocalFilePathOfKnown[id],
    target  |-> LocalFilePathOfKnown[id],
    content |-> MapGet(shadcnItems, id).code ]

\* a plausible slip: the file entry is set without the test for "?"
FilesAfter_NoQueryTest(id, type) ==
  IF type \in {"external", "registry:shadcn"} THEN files
  ELSE MapSet(files, RegistryItemFile(id))

\* the files Map after the switch on the type of the frontier module id
FilesAfter(id, type) ==
  IF type \in {"external", "registry:shadcn"} \/ includes(id, "?") THEN files
  ELSE MapSet(files, RegistryItemFile(id))

\* a plausible slip: the imports of every file-producing module are walked
ExpandsImports_Always(type) == type \notin {"external", "registry:shadcn"}

\* the case of the switch that walks the imports of the module
ExpandsImports(type) == type = "registry:internal"

ClosureVisit ==
  /\ pc = "closure"
  /\ itemIndex <= Len(items)
  /\ LET id      == items[itemIndex]
         item    == MapGet(shadcnItems, id)
         type    == item.meta.type
         skipped == startsWith(id, NUL)
         expand  == ~skipped /\ ExpandsImports(type)
         after   == IF expand THEN SetAddAll(nextItems, item.modules)
                    ELSE nextItems
         last    == itemIndex = Len(items)
     IN  IF expand /\ \E m \in Range(item.modules) : ~MapHas(shadcnItems, m)
         THEN \* throw new Error()
              /\ pc' = "failed"
              /\ UNCHANGED closureVars
         ELSE /\ dependencies' =
                   IF ~skipped /\ type = "external"
                   THEN SetAdd(dependencies, id) ELSE dependencies
              /\ registryDependencies' =
                   IF ~skipped /\ type = "registry:shadcn"
                   THEN SetAdd(registryDependencies, item.meta.name)
                   ELSE registryDependencies
              /\ files' = IF skipped THEN files ELSE FilesAfter(id, type)
              /\ items' = IF last THEN after ELSE items
              /\ itemIndex' = IF last THEN 1 ELSE itemIndex + 1
              /\ nextItems' = IF last THEN <<>> ELSE after
              /\ pc' = IF last /\ after = <<>> THEN "closed" ELSE "closure"
              /\ UNCHANGED closureId
  /\ UNCHANGED <<clsVars, hostVars, walkVars, registryVars, passVars, bundleVars>>

(***************************************************************************)
(* RegistryImpl: #itemsMap is the sequence of its entries, each a          *)
(* RegistryItem with its key in the field name.                            *)
(***************************************************************************)
null == <<>>

HasItem(map, name) == \E i \in DOMAIN map : map[i].name = name

\* a plausible slip: an item whose name is taken is dropped
addItem_KeepFirst(map, item) ==
  IF HasItem(map, item.name) THEN map ELSE Append(map, item)

\* a plausible slip: an item whose name is taken is removed and added anew
addItem_MovesToEnd(map, item) ==
  Append(SelectSeq(map, LAMBDA held : held.name # item.name), item)

\* this.#itemsMap.set(item.name, item)
addItem(map, item) ==
  IF HasItem(map, item.name)
  THEN [i \in DOMAIN map |-> IF map[i].name = item.name THEN item ELSE map[i]]
  ELSE Append(map, item)

\* this.#itemsMap.get(name) || null
getItem(map, name) ==
  IF HasItem(map, name) THEN map[CHOOSE i \in DOMAIN map : map[i].name = name]
  ELSE null

RegistryIdle ==
  /\ itemsMap = <<>>
  /\ addedItems = <<>>
  /\ returned = null

PassIdle ==
  /\ shadcnItems = <<>>
  /\ entryIndex = 0

BundleIdle ==
  /\ emitted = <<>>
  /\ run = 1
  /\ firstEmitted = <<>>

\* registry.addItem(item)
AddItem(item) ==
  /\ itemsMap' = addItem(itemsMap, item)
  /\ addedItems' = Append(addedItems, item)
  /\ UNCHANGED returned

\* registry.getItem(name)
GetItem(name) ==
  /\ returned' = [name |-> name, item |-> getItem(itemsMap, name),
                  after |-> Len(addedItems)]
  /\ UNCHANGED <<itemsMap, addedItems>>

(***************************************************************************)
(* buildEnd after the walk: the loop that fills shadcnItems (one step),    *)
(* then one closure and one addItem per publishable entry.                 *)
(***************************************************************************)
BuildRecords ==
  /\ pc = "walked"
  /\ IF \E i \in DOMAIN hoistedImportedIds :
          \/ hoistedImportedIds[i] \in unresolvedIds
          \/ ~hasModuleInfo(hoistedImportedIds[i])
     THEN \* throw new Error(`Unable to resolve ...`) or `Unable to find info ...`
          /\ pc' = "failed"
          /\ UNCHANGED <<passVars, registryVars>>
     ELSE /\ shadcnItems' = ShadcnItemsOf(hoistedImportedIds)
          /\ entryIndex' = 1
          /\ itemsMap' = <<>>
          /\ addedItems' = <<>>
          /\ UNCHANGED returned
          /\ pc' = "items"
  /\ UNCHANGED <<clsVars, hostVars, walkVars, closureVars, bundleVars>>

\* a plausible slip: the loop skips the hooks as well
NextPublishable_SkipsHooks(i) ==
  LET rest == { j \in i..Len(shadcnItems) :
                  shadcnItems[j].meta.type \in {"registry:component", "registry:lib"} }
  IN  IF rest = {} THEN 0 ELSE CHOOSE j \in rest : \A k \in rest : j <= k

\* the first entry from i on that the loop does not skip, 0 when none
NextPublishable(i) ==
  LET rest == { j \in i..Len(shadcnItems) :
                  shadcnItems[j].meta.type \in PublishableTypes }
  IN  IF rest = {} THEN 0 ELSE CHOOSE j \in rest : \A k \in rest : j <= k

ItemTurn ==
  /\ pc = "items"
  /\ LET i == NextPublishable(entryIndex)
     IN  IF i = 0
         THEN /\ pc' = "done"
              /\ UNCHANGED <<entryIndex, closureVars>>
         ELSE LET called == ClosureCalled(shadcnItems[i].id, shadcnItems)
              IN  /\ entryIndex' = i
                  /\ closureId' = called.closureId
                  /\ items' = called.items
                  /\ itemIndex' = called.itemIndex
                  /\ nextItems' = called.nextItems
                  /\ dependencies' = called.dependencies
                  /\ registryDependencies' = called.registryDependencies
                  /\ files' = called.files
                  /\ pc' = ClosurePc(shadcnItems[i].id, shadcnItems)
  /\ UNCHANGED <<clsVars, hostVars, walkVars, registryVars, shadcnItems, bundleVars>>

\* the RegistryItem buildEnd makes of a returned closure
RegistryItem(shadcnItem) ==
  [ name  |-> shadcnItem.meta.name,
    type  |-> shadcnItem.meta.type,
    files |-> [i \in DOMAIN files |-> [ type    |-> files[i].type,
                                        path    |-> files[i].path,
                                        target  |-> files[i].target,
                                        content |-> files[i].content ]],
    dependencies |-> dependencies,
    registryDependencies |-> registryDependencies ]

ItemAdded ==
  /\ pc = "closed"
  /\ entryIndex > 0
  /\ AddItem(RegistryItem(shadcnItems[entryIndex]))
  /\ entryIndex' = entryIndex + 1
  /\ pc' = "items"
  /\ UNCHANGED <<clsVars, hostVars, walkVars, closureVars, shadcnItems, bundleVars>>

(***************************************************************************)
(* generateBundle: emitted is the sequence of its emitFile calls.  A       *)
(* document is kept as the value JSON.stringify is applied to.             *)
(***************************************************************************)
\* RegistryImpl.toJSON()
toJSON ==
  [ schema   |-> "https://shadcn-vue.com/schema/registry.json",
    name     |-> "some name",
    homepage |-> "some homepage",
    items    |-> itemsMap ]

\* the file emitted for one item of registry.items
ItemAsset(item) ==
  [ fileName |-> "shadcn-registry/" \o item.name \o ".json",
    source   |-> [ schema |-> "https://shadcn-vue.com/schema/registry-item.json",
                   item   |-> item ] ]

GenerateBundle ==
  /\ pc = "done"
  /\ emitted' = <<[fileName |-> "shadcn-registry/index.json", source |-> toJSON]>>
                 \o [i \in DOMAIN itemsMap |-> ItemAsset(itemsMap[i])]
  /\ firstEmitted' = IF run = 1 THEN emitted' ELSE firstEmitted
  /\ pc' = "bundled"
  /\ UNCHANGED <<clsVars, hostVars, walkVars, closureVars, registryVars, passVars, run>>

\* the host builds again on the same plugin instance and the same graph:
\* buildEnd is called anew
NextBuild ==
  /\ pc = "bundled"
  /\ run < MaxBuilds
  /\ run' = run + 1
  /\ hoistedImportedIds' = <<>>
  /\ moduleIdsToProcess' = <<VIRTUAL_MODULE_ID>>
  /\ moduleInfoFetches' = [id \in DOMAIN moduleInfoFetches |-> 0]
  /\ pc' = "walk"
  /\ UNCHANGED <<clsVars, hostVars, closureVars, registryVars, passVars,
                 emitted, firstEmitted>>

(***************************************************************************)
(* The closure builder on its own: createShadcnItemDependencies called for *)
(* a publishable module of a record map built, as buildEnd builds it, from *)
(* a module graph of at most MaxClosureEdges import edges.  MISSING_ID is  *)
(* an identity the record map has no entry for.                            *)
(***************************************************************************)
ClosureModules ==
  <<CARD_ID, FORMAT_ID, SCRIPT_BLOCK_ID, "clsx", BUTTON_ID, EXPORT_HELPER_ID, HOOK_ID>>

ClosureIds == Append(ClosureModules, MISSING_ID)

\* an external package and a module without record import nothing
ClosureEdges ==
  { e \in Edges(ClosureIds) : ClosureIds[e[1]] \notin {"clsx", MISSING_ID} }

ClosureInit ==
  /\ \E edges \in SubsetsUpTo(ClosureEdges, MaxClosureEdges) :
       HostGraph(ClosureIds, edges, {})
  /\ moduleInfoIds = Range(ClosureModules)
  /\ unresolvedIds = {}
  /\ shadcnItems = ShadcnItemsOf(ClosureModules)
  /\ entryIndex = 0
  /\ \E id \in Range(ClosureModules) :
       /\ MapGet(shadcnItems, id).meta.type \in PublishableTypes
       /\ closureId = ClosureCalled(id, shadcnItems).closureId
       /\ items = ClosureCalled(id, shadcnItems).items
       /\ itemIndex = ClosureCalled(id, shadcnItems).itemIndex
       /\ pc = ClosurePc(id, shadcnItems)
  /\ nextItems = <<>>
  /\ dependencies = <<>>
  /\ registryDependencies = <<>>
  /\ files = <<>>
  /\ ClsIdle
  /\ WalkIdle
  /\ RegistryIdle
  /\ BundleIdle

ClosureNext == ClosureVisit

SpecClosure == ClosureInit /\ [][ClosureNext]_vars

\* the modules of a record of the map, none for an id the map does not hold
ModulesOf(id) ==
  IF MapHas(shadcnItems, id) THEN Range(MapGet(shadcnItems, id).modules) ELSE {}

TypeOf(id) == MapGet(shadcnItems, id).meta.type

\* the modules an Internal module of R that has no "\0" marker brings in
RECURSIVE ReferenceClosure(_)
ReferenceClosure(R) ==
  LET more == UNION { ModulesOf(id) :
                        id \in { r \in R : /\ MapHas(shadcnItems, r)
                                           /\ ~startsWith(r, NUL)
                                           /\ TypeOf(r) = "registry:internal" } }
  IN  IF more \subseteq R THEN R ELSE ReferenceClosure(R \cup more)

\* R of the target: the target, its direct imports, and every import of an
\* Internal module of R; the marked modules and those without a record
\* contribute nothing
ReferenceModules(target) ==
  { r \in ReferenceClosure({target} \cup ModulesOf(target)) :
      MapHas(shadcnItems, r) /\ ~startsWith(r, NUL) }

\* C2: a returned closure equals the reference closure of its target.
C2_EqualsReferenceClosure ==
  pc = "closed" =>
    LET R == ReferenceModules(closureId)
    IN  /\ Range(dependencies) = { r \in R : TypeOf(r) = "external" }
        /\ Range(registryDependencies) =
             { MapGet(shadcnItems, r).meta.name :
                 r \in { q \in R : TypeOf(q) = "registry:shadcn" } }
        /\ Range(MapKeys(files)) =
             { r \in R : /\ TypeOf(r) \in PublishableTypes \cup {"registry:internal"}
                         /\ ~includes(r, "?") }
        /\ Cardinality(Range(MapKeys(files))) = Len(files)

\* a returned closure whose target imports an Internal helper that imports
\* another publishable module, the import of which is not followed
C2_Witness ==
  /\ pc = "closed"
  /\ closureId = CARD_ID
  /\ FORMAT_ID \in ModulesOf(CARD_ID)
  /\ HOOK_ID \in ModulesOf(FORMAT_ID) \ ModulesOf(CARD_ID)
  /\ "clsx" \in ModulesOf(HOOK_ID)
  /\ HOOK_ID \in Range(MapKeys(files))
  /\ FORMAT_ID \in Range(MapKeys(files))
  /\ "clsx" \notin Range(dependencies)

\* C6: in every state of the closure builder no file entry belongs to an
\* identity with a "?" or with the "\0" marker, and a marked module
\* contributes no dependency, no cross-reference and no expansion.
C6_NoQueryNoMarkedModule ==
  pc \in {"closure", "closed"} =>
    LET R == ReferenceModules(closureId)
    IN  /\ \A i \in DOMAIN files :
             ~includes(files[i].id, "?") /\ ~startsWith(files[i].id, NUL)
        /\ \A i \in DOMAIN dependencies : ~startsWith(dependencies[i], NUL)
        /\ Range(registryDependencies) \subseteq
             { MapGet(shadcnItems, r).meta.name : r \in R }
        /\ \A id \in Range(items) \cup Range(nextItems) :
             ~startsWith(id, NUL) => id \in R

\* a returned closure whose target imports a marked module that imports an
\* external package, and a module with a "?"
C6_Witness ==
  /\ pc = "closed"
  /\ \E v \in ModulesOf(closureId) :
       startsWith(v, NUL) /\ "clsx" \in ModulesOf(v)
  /\ \E q \in ModulesOf(closureId) : includes(q, "?")

WalkIds == <<VIRTUAL_MODULE_ID, CARD_ID, FORMAT_ID, "clsx">>

WalkerInit ==
  /\ \E edges \in SubsetsUpTo(Edges(WalkIds), MaxWalkEdges),
        lazy \in SubsetsUpTo(Range(WalkIds), 1),
        missing \in SubsetsUpTo(Range(WalkIds), 1) :
       /\ HostGraph(WalkIds, edges, lazy)
       /\ moduleInfoIds = Range(WalkIds) \ missing
  /\ WalkStart(VIRTUAL_MODULE_ID, Range(WalkIds))
  /\ unresolvedIds = {}
  /\ pc = "walk"
  /\ ClsIdle
  /\ ClosureIdle
  /\ RegistryIdle
  /\ PassIdle
  /\ BundleIdle

WalkerNext == WalkTurn

SpecWalker == WalkerInit /\ [][WalkerNext]_vars

\* the walk runs to completion: buildEnd calls it synchronously
FairSpecWalker == SpecWalker /\ WF_vars(WalkerNext)

\* the ids reachable from the sets S by one or more import edges
RECURSIVE ReachableFrom(_, _)
ReachableFrom(S, found) ==
  LET step == UNION { Range(importedIds[id]) \cup Range(dynamicallyImportedIds[id])
                        : id \in S }
  IN  IF step \subseteq found THEN found
      ELSE ReachableFrom(step \ found, found \cup step)

\* C1: the walk returns exactly the identities reachable from the root by
\* one or more static or dynamic import edges, each once.
C1_ExactlyReachable ==
  pc = "walked" =>
    /\ Range(hoistedImportedIds) = ReachableFrom({VIRTUAL_MODULE_ID}, {})
    /\ Cardinality(Range(hoistedImportedIds)) = Len(hoistedImportedIds)

\* a finished walk over a graph with a cycle through the root, a dynamic
\* edge and an unreachable module
C1_Witness ==
  /\ pc = "walked"
  /\ VIRTUAL_MODULE_ID \in Range(hoistedImportedIds)
  /\ \E id \in DOMAIN importedIds :
       dynamicallyImportedIds[id] # <<>> /\ id \in Range(hoistedImportedIds)
  /\ Range(hoistedImportedIds) # DOMAIN importedIds

\* C4: during one walk the import list of an identity is fetched at most
\* once.
C4_FetchedAtMostOnce ==
  \A id \in DOMAIN moduleInfoFetches : moduleInfoFetches[id] <= 1

AllHaveModuleInfo == moduleInfoIds = DOMAIN importedIds

\* C5: when every identity has module info the walk terminates, cycles or
\* not, and a turn of the loop ends the walk exactly when its expansion
\* yields no identity that is not yet in the visited set.
C5_WalkTerminates ==
  /\ (AllHaveModuleInfo => <>(pc = "walked"))
  /\ [][ (pc = "walk" /\ AllHaveModuleInfo) =>
           ( (pc' = "walked") <=>
             Range(FlatMapImports(moduleIdsToProcess))
               \subseteq Range(hoistedImportedIds) ) ]_vars

\* a finished walk over a graph with an import cycle
C5_Witness ==
  /\ pc = "walked"
  /\ AllHaveModuleInfo
  /\ \E a, b \in Range(hoistedImportedIds) :
       /\ a # b
       /\ b \in Range(ModuleImports(a))
       /\ a \in Range(ModuleImports(b))

----------------------------------------------------------------------------
(***************************************************************************)
(* The classifier on its own: one call of getShadcnItemMeta on a resolved  *)
(* module drawn from the identities below.                                 *)
(***************************************************************************)
RootDirs ==
  { "src/components/ui", "src/components", "src/composables", "src/utils",
    "src", "node_modules" }

SubDirNames == {"card", "fooBar"}

\* the directory chains of at most n levels, each ending with "/"
RECURSIVE SubDirChains(_)
SubDirChains(n) ==
  IF n = 0 THEN {""}
  ELSE LET shorter == SubDirChains(n - 1)
       IN  shorter \cup { c \o d \o "/" : c \in shorter, d \in SubDirNames }

FileNames == {"index.ts", "fooBar.vue", "foo-bar.tsx", "card.ts"}

Queries == {"", "?vue&type=script&lang.ts"}

ClassifierIds ==
  { configRootDir \o "/" \o r \o "/" \o c \o f \o q :
      r \in RootDirs, c \in SubDirChains(MaxSubDirs), f \in FileNames, q \in Queries }
  \cup {"clsx", VIRTUAL_MODULE_ID}

Externality == {"true", "false", "absolute"}

ClassifierInit ==
  /\ resolvedId \in [id : ClassifierIds, external : Externality]
  /\ shadcnItemMeta = NoMeta
  /\ pc = "classify"
  /\ HostIdle
  /\ WalkIdle
  /\ ClosureIdle
  /\ RegistryIdle
  /\ PassIdle
  /\ BundleIdle

Classify ==
  /\ pc = "classify"
  /\ pc' = "classified"
  /\ shadcnItemMeta' = getShadcnItemMeta(resolvedId)
  /\ UNCHANGED <<resolvedId, hostVars, walkVars, closureVars, registryVars, passVars, bundleVars>>

ClassifierNext == Classify

SpecClassifier == ClassifierInit /\ [][ClassifierNext]_vars

Categories ==
  { "registry:shadcn", "registry:component", "registry:hook", "registry:lib",
    "external", "registry:internal" }

SemanticTypes ==
  {"registry:shadcn", "registry:component", "registry:hook", "registry:lib"}

MatchedRoot(type) ==
  CASE type = "registry:shadcn"    -> uiComponentsDir
    [] type = "registry:component" -> componentsDir
    [] type = "registry:hook"      -> composablesDir
    [] type = "registry:lib"       -> joinPath(srcDir, "utils")

\* C9: under a semantic root the catalog name is derived from the path
\* relative to the root the module matched: the kebab-case of its parent
\* directory when there is one, otherwise of the file's base name without
\* extension.  Stated for the files at most one directory below their
\* root, where the parent directory is a single segment.
C9_NameFromMatchedRoot ==
  shadcnItemMeta.type \in SemanticTypes =>
    LET root   == joinPath(configRootDir, MatchedRoot(shadcnItemMeta.type))
        parsed == parsePath(relativePath(root, getRegistryItemPath(resolvedId.id)))
    IN  ~includes(parsed.dir, "/") =>
          shadcnItemMeta.name =
            kebabCase(IF parsed.dir # "" THEN parsed.dir ELSE parsed.name)

\* a file directly under the utilities root has been classified
C9_Witness ==
  /\ shadcnItemMeta.type = "registry:lib"
  /\ resolvedId.id = "/proj/src/utils/fooBar.vue"

----------------------------------------------------------------------------
(***************************************************************************)
(* The registry on its own: at most MaxAddItems calls of addItem, with     *)
(* getItem calls in between.                                               *)
(***************************************************************************)
RegistryNames == {"card", "utils", "use-mouse"}

RegistryInputs ==
  { [ name  |-> n,
      type  |-> t,
      files |-> <<>>,
      dependencies |-> d,
      registryDependencies |-> <<>> ] :
      n \in {"card", "utils"},
      t \in {"registry:component", "registry:lib"},
      d \in {<<>>, <<"clsx">>} }

RegistryInit ==
  /\ RegistryIdle
  /\ pc = "registry"
  /\ ClsIdle
  /\ HostIdle
  /\ WalkIdle
  /\ ClosureIdle
  /\ PassIdle
  /\ BundleIdle

RegistryAddItem ==
  /\ pc = "registry"
  /\ Len(addedItems) < MaxAddItems
  /\ \E item \in RegistryInputs : AddItem(item)
  /\ UNCHANGED <<clsVars, hostVars, pc, walkVars, closureVars, passVars, bundleVars>>

RegistryGetItem ==
  /\ pc = "registry"
  /\ \E name \in RegistryNames : GetItem(name)
  /\ UNCHANGED <<clsVars, hostVars, pc, walkVars, closureVars, passVars, bundleVars>>

RegistryNext == RegistryAddItem \/ RegistryGetItem

SpecRegistry == RegistryInit /\ [][RegistryNext]_vars

\* the last of the first k items added that has the name, null when none
LastAdded(name, k) ==
  LET at == { i \in 1..k : addedItems[i].name = name }
  IN  IF at = {} THEN null
      ELSE addedItems[CHOOSE i \in at : \A j \in at : j <= i]

\* C10: the items collection holds one item per name added, getItem gives
\* the item added last under a name and null for a name never added.
C10_LastWriteWins ==
  pc = "registry" =>
    /\ { itemsMap[i].name : i \in DOMAIN itemsMap } =
         { addedItems[i].name : i \in DOMAIN addedItems }
    /\ \A i, j \in DOMAIN itemsMap : itemsMap[i].name = itemsMap[j].name => i = j
    /\ \A n \in RegistryNames :
         getItem(itemsMap, n) = LastAdded(n, Len(addedItems))
    /\ returned # null => returned.item = LastAdded(returned.name, returned.after)

\* a name was added twice with different items and another name once, and
\* getItem has returned the later item
C10_Witness ==
  /\ Len(addedItems) = 3
  /\ addedItems[1].name = addedItems[3].name
  /\ addedItems[1] # addedItems[3]
  /\ addedItems[2].name # addedItems[1].name
  /\ returned # null
  /\ returned.after = 3
  /\ returned.item = addedItems[3]

----------------------------------------------------------------------------
(***************************************************************************)
(* The whole pass: buildEnd over every module graph of at most             *)
(* MaxPassEdges import edges in which nothing imports the virtual root.    *)
(***************************************************************************)
PassIds == <<VIRTUAL_MODULE_ID, CARD_ID, FORMAT_ID, SCRIPT_BLOCK_ID, "clsx", HOOK_ID>>

\* an external package imports nothing, and nothing imports the root
PassEdges ==
  { e \in Edges(PassIds) :
      PassIds[e[1]] # "clsx" /\ PassIds[e[2]] # VIRTUAL_MODULE_ID }

PassInit ==
  /\ \E edges \in SubsetsUpTo(PassEdges, MaxPassEdges),
        lazy \in SubsetsUpTo({FORMAT_ID}, 1) :
       HostGraph(PassIds, edges, lazy)
  /\ moduleInfoIds = Range(PassIds)
  /\ unresolvedIds \in SubsetsUpTo({SCRIPT_BLOCK_ID}, 1)
  /\ WalkStart(VIRTUAL_MODULE_ID, Range(PassIds))
  /\ pc = "walk"
  /\ ClsIdle
  /\ ClosureIdle
  /\ RegistryIdle
  /\ PassIdle
  /\ BundleIdle

PassNext == WalkTurn \/ BuildRecords \/ ItemTurn \/ ClosureVisit \/ ItemAdded

SpecPass == PassInit /\ [][PassNext]_vars

\* buildEnd runs to its end once the host calls it
FairSpecPass == SpecPass /\ WF_vars(PassNext)

\* C3: the pass always finishes: it completes with a registry or aborts.
C3_PassFinishes == <>(pc \in {"done", "failed"})

----------------------------------------------------------------------------
(***************************************************************************)
(* Builds with their bundle: buildEnd and generateBundle, run MaxBuilds    *)
(* times over one module graph of at most MaxBuildEdges import edges.  The *)
(* virtual root imports entries (a component, hooks); the component and    *)
(* its helper import what they like, the hooks import nothing.             *)
(***************************************************************************)
BuildIds ==
  <<VIRTUAL_MODULE_ID, CARD_ID, FORMAT_ID, "clsx", HOOK_ID, CARD_HOOK_ID,
    INDEX_HOOK_ID>>

BuildEntries == {CARD_ID, HOOK_ID, CARD_HOOK_ID, INDEX_HOOK_ID}

BuildEdges ==
  { e \in Edges(BuildIds) :
      /\ BuildIds[e[2]] # VIRTUAL_MODULE_ID
      /\ \/ BuildIds[e[1]] = VIRTUAL_MODULE_ID /\ BuildIds[e[2]] \in BuildEntries
         \/ BuildIds[e[1]] \in {CARD_ID, FORMAT_ID} }

BuildInit ==
  /\ \E edges \in SubsetsUpTo(BuildEdges, MaxBuildEdges),
        lazy \in SubsetsUpTo({CARD_HOOK_ID}, 1) :
       HostGraph(BuildIds, edges, lazy)
  /\ moduleInfoIds = Range(BuildIds)
  /\ unresolvedIds = {}
  /\ WalkStart(VIRTUAL_MODULE_ID, Range(BuildIds))
  /\ pc = "walk"
  /\ ClsIdle
  /\ ClosureIdle
  /\ RegistryIdle
  /\ PassIdle
  /\ BundleIdle

BuildNext == PassNext \/ GenerateBundle \/ NextBuild

SpecBuild == BuildInit /\ [][BuildNext]_vars

\* the modules reachable from the virtual root that are classified
\* Component, Hook or Lib
ReachablePublishable ==
  { id \in ReachableFrom({VIRTUAL_MODULE_ID}, {}) :
      MetaOfKnown[id].type \in
        {"registry:component", "registry:hook", "registry:lib"} }

\* C11: after a completed pass the registry holds an item named n exactly
\* when a reachable Component, Hook or Lib has the catalog name n; every
\* item has one of these three types, and a Component, Hook or Lib that is
\* a file of some item is an item itself.
C11_RegistryComplete ==
  pc \in {"done", "bundled"} =>
    /\ { itemsMap[i].name : i \in DOMAIN itemsMap } =
         { MetaOfKnown[id].name : id \in ReachablePublishable }
    /\ \A i \in DOMAIN itemsMap :
         /\ itemsMap[i].type \in
              {"registry:component", "registry:hook", "registry:lib"}
         /\ \E id \in ReachablePublishable :
              /\ MetaOfKnown[id].name = itemsMap[i].name
              /\ MetaOfKnown[id].type = itemsMap[i].type
         /\ \A f \in DOMAIN itemsMap[i].files :
              \A id \in KnownIds :
                ( /\ LocalFilePathOfKnown[id] = itemsMap[i].files[f].path
                  /\ MetaOfKnown[id].type \in
                       {"registry:component", "registry:hook", "registry:lib"} )
                => HasItem(itemsMap, MetaOfKnown[id].name)

\* a completed pass in which the component's item holds the file of a hook
\* that is an item too, next to a reachable Internal and External module
C11_Witness ==
  /\ pc = "done"
  /\ {FORMAT_ID, "clsx"} \subseteq ReachableFrom({VIRTUAL_MODULE_ID}, {})
  /\ \E i, j \in DOMAIN itemsMap :
       /\ itemsMap[i].type = "registry:component"
       /\ itemsMap[j].name = "use-mouse"
       /\ \E f \in DOMAIN itemsMap[i].files :
            itemsMap[i].files[f].path = LocalFilePathOfKnown[HOOK_ID]

\* C12: a later build over the same module graph, classification and source
\* texts emits the documents of the first build: the same file names with
\* the same contents in the same order.
C12_SameOutputTwice ==
  (pc = "bundled" /\ run > 1) => emitted = firstEmitted

\* a second build has emitted the manifest and two items, one of them with
\* two files and a dependency
C12_Witness ==
  /\ pc = "bundled"
  /\ run = 2
  /\ Len(emitted) >= 3
  /\ \E i \in DOMAIN itemsMap :
       /\ Len(itemsMap[i].files) >= 2
       /\ itemsMap[i].dependencies # <<>>

\* where the registry was given the name first and last
FirstAddIndex(name) ==
  CHOOSE k \in DOMAIN addedItems :
    /\ addedItems[k].name = name
    /\ \A l \in 1..(k - 1) : addedItems[l].name # name

LastAddIndex(name) ==
  CHOOSE k \in DOMAIN addedItems :
    /\ addedItems[k].name = name
    /\ \A l \in (k + 1)..Len(addedItems) : addedItems[l].name # name

\* C13: the items list is in processing order: of two items the one whose
\* content comes from the module processed earlier is first, also when an
\* earlier item of the same name was overwritten.
C13_ProcessingOrder ==
  pc \in {"done", "bundled"} =>
    \A i, j \in DOMAIN itemsMap :
      i < j => LastAddIndex(itemsMap[i].name) < LastAddIndex(itemsMap[j].name)

\* C13, amended: the items list is in the order in which the names were
\* added first; an item that overwrites another takes the position of the
\* item it overwrites, and holds the content added last.
C13_FirstInsertionOrder ==
  pc \in {"done", "bundled"} =>
    /\ \A i, j \in DOMAIN itemsMap :
         i < j => FirstAddIndex(itemsMap[i].name) < FirstAddIndex(itemsMap[j].name)
    /\ \A i \in DOMAIN itemsMap :
         itemsMap[i] = addedItems[LastAddIndex(itemsMap[i].name)]

\* a completed pass in which the item added last has overwritten the first
\* item of a list of two
C13_Witness ==
  /\ pc = "done"
  /\ Len(addedItems) = 3
  /\ Len(itemsMap) = 2
  /\ itemsMap[1] = addedItems[3]
  /\ itemsMap[1] # addedItems[1]

\* the module m is the only one that imports id
OnlyImporter(m, id) ==
  \A other \in DOMAIN importedIds :
    id \in Range(importedIds[other]) \cup Range(dynamicallyImportedIds[other])
      => other = m

\* the place of the module id in the files of the running closure, 0 when
\* it has no file there
FilePlace(id) ==
  IF \E i \in DOMAIN files : files[i].id = id
  THEN CHOOSE i \in DOMAIN files : files[i].id = id
  ELSE 0

\* the place of the name in the dependencies of the running closure
DependencyPlace(name) ==
  IF \E i \in DOMAIN dependencies : dependencies[i] = name
  THEN CHOOSE i \in DOMAIN dependencies : dependencies[i] = name
  ELSE 0

\* C14: frontiers are processed in the order of the import lists, static
\* imports before dynamic ones: of a static and a dynamic import of one
\* module that only this module imports, the static one is inserted into
\* files (or dependencies) before the dynamic one.
C14_StaticBeforeDynamic ==
  pc = "closed" =>
    \A m \in DOMAIN importedIds :
      \A s \in Range(importedIds[m]), d \in Range(dynamicallyImportedIds[m]) :
        (OnlyImporter(m, s) /\ OnlyImporter(m, d)) =>
          /\ (FilePlace(s) > 0 /\ FilePlace(d) > 0) => FilePlace(s) < FilePlace(d)
          /\ (DependencyPlace(s) > 0 /\ DependencyPlace(d) > 0)
               => DependencyPlace(s) < DependencyPlace(d)

\* a closure has returned with the files of a static and a dynamic import
\* of its Internal helper
C14_Witness ==
  /\ pc = "closed"
  /\ closureId = CARD_ID
  /\ HOOK_ID \in Range(importedIds[FORMAT_ID])
  /\ CARD_HOOK_ID \in Range(dynamicallyImportedIds[FORMAT_ID])
  /\ OnlyImporter(FORMAT_ID, HOOK_ID)
  /\ OnlyImporter(FORMAT_ID, CARD_HOOK_ID)
  /\ FilePlace(HOOK_ID) > 0
  /\ FilePlace(CARD_HOOK_ID) > 0

\* C15: generateBundle emits no two documents under one file name: the
\* manifest and the documents of the items all have different file names.
C15_DistinctFileNames ==
  pc = "bundled" =>
    \A i, j \in DOMAIN emitted :
      emitted[i].fileName = emitted[j].fileName => i = j

\* a bundle with the manifest and the documents of two items
C15_Witness ==
  /\ pc = "bundled"
  /\ Len(emitted) = 3

====
